---- MODULE Spec2Model ----
(***************************************************************************)
(* Model of the document ingestion and incremental semantic-extraction     *)
(* pipeline of tender-bender:                                              *)
(*   src/src/utils/helpers.py              chunk_text_for_user_prompt,     *)
(*                                         empty_dict_from_dataclass       *)
(*   src/src/documents_parser.py           DocumentsParser                 *)
(*   src/src/agents/tender_llm_extractor.py  BaseLLMProcessor              *)
(*   src/src/tender_pipeline.py            TenderProcessingPipeline        *)
(* Each component has its own specification (SpecChunk, SpecIngest,        *)
(* SpecMerge, SpecExtract); the variables of the other components stay at  *)
(* their idle values.                                                      *)
(***************************************************************************)
EXTENDS Integers, Sequences, FiniteSets, TLC

VARIABLES
    \* ---- chunk_text_for_user_prompt (helpers.py) ----
    c_in,       \* the arguments of one call
    c_out,      \* its outcome, or Pending before the call
    \* ---- DocumentsParser (documents_parser.py) ----
    document_infos,   \* self.document_infos: the descriptors given to __init__
    archive,          \* the entry names (namelist) of the ZIP file the fetch serves
    doc_index,        \* descriptors _process_all_documents has gone through
    documents_data,   \* self.documents_data
    emitted,          \* emitted[i]: what _process_document did for descriptor i
    escaped,          \* an exception left _process_document
    tmp_files,        \* the temporary files and directories that exist on disk
    \* ---- BaseLLMProcessor._accumulate_data (tender_llm_extractor.py) ----
    aggregate,        \* accumulated: the aggregate
    merge_raised,     \* a merge raised an exception
    \* ---- semantic extraction of one tender (tender_pipeline.py, tender_llm_extractor.py) ----
    x_config,         \* self.client.config and the token counts of the fixed prompt parts
    x_documents,      \* documents: the full_text of each record handed to process
    x_pc,             \* where _extract_semantic_data is
    x_doc,            \* index of the document the loop is at
    x_chunked,        \* what chunk_text_for_user_prompt gave for each document reached
    x_chunk,          \* index of the next chunk of the current document
    x_accumulated,    \* accumulated
    x_already,        \* already_extracted: the aggregate dumped for the current document
    total_calls,      \* total_calls
    calls,            \* the generation calls issued: document and chunk index, and the reply
    tender,           \* semantic_data, processing_stage and processing_errors of the tender
    \* ---- TenderProcessingPipeline.process_from_source (tender_pipeline.py) ----
    p_pc,             \* where process_from_source is
    p_args,           \* the skip flags, and whether self.vector_search is set
    p_steps,          \* the descriptors of the mapped record, and how parsing and indexing went
    unified_tender,   \* the local unified_tender: the tender record, or None
    \* ---- empty_dict_from_dataclass and dataclass_to_openai_schema (helpers.py) ----
    s_cls,            \* the dataclass handed to both
    s_done,           \* which of the two have returned
    s_skeleton,       \* what empty_dict_from_dataclass returned
    s_schema          \* what _get_properties_and_required returned

chunk_vars == <<c_in, c_out>>
ingest_vars == <<document_infos, archive, doc_index, documents_data, emitted, escaped, tmp_files>>
merge_vars == <<aggregate, merge_raised>>
extract_vars == <<x_config, x_documents, x_pc, x_doc, x_chunked, x_chunk, x_accumulated, x_already, total_calls, calls, tender>>
pipe_vars == <<p_pc, p_args, p_steps, unified_tender>>
skel_vars == <<s_cls, s_done, s_skeleton, s_schema>>
vars == <<chunk_vars, ingest_vars, merge_vars, extract_vars, pipe_vars, skel_vars>>

\* ---------------------------------------------------------------- bounds
\* Paragraphs per document text.
MaxParas == 3
\* Largest token count of one paragraph.
MaxParaTokens == 3
\* Largest context window of a model configuration.
MaxWindow == 6
\* Largest token count of the populated user-prompt template.
MaxTemplateTokens == 2
\* Largest number of response tokens a model configuration reserves.
MaxResponseTokens == 2
\* Descriptors in one document_infos list.
MaxDocs == 2
\* Entries in the ZIP archive.
MaxEntries == 2

\* ------------------------------------------------------------ generic helpers
RECURSIVE SumSeq(_)
SumSeq(s) == IF s = <<>> THEN 0 ELSE Head(s) + SumSeq(Tail(s))

RECURSIVE Flatten(_)
Flatten(ss) == IF ss = <<>> THEN <<>> ELSE Head(ss) \o Flatten(Tail(ss))

SeqsUpTo(S, n) == UNION {[1..k -> S] : k \in 1..n}

\* ======================================================================
\* Token-budget chunker: helpers.py, chunk_text_for_user_prompt
\* ======================================================================
\* A text is modelled by the list full_text.split("\n\n") gives for it, so the
\* empty string is <<EmptyPara>> and s + "\n\n" + p is Append(s, p).  A paragraph
\* is named by an integer: EmptyPara is "", BlankPara is a whitespace-only
\* paragraph, and k > 0 is a paragraph of visible text that the tokenizer encodes
\* in k tokens (two paragraphs with the same k are the same text).
EmptyPara == 0
BlankPara == 0 - 1

Paragraphs == {EmptyPara, BlankPara} \cup (1..MaxParaTokens)

\* count_tokens(para, tokenizer): "" encodes to no token, whitespace to one.
count_tokens(para) ==
    IF para = EmptyPara THEN 0 ELSE IF para = BlankPara THEN 1 ELSE para

IsWhitespace(para) == para \in {EmptyPara, BlankPara}

\* Python truthiness of a string: only "" is false.
Truthy(text) == text # <<EmptyPara>>

\* str.strip(): leading and trailing whitespace goes, and with it every empty or
\* blank paragraph at either end together with the "\n\n" that separated it.
RECURSIVE LStrip(_)
LStrip(text) ==
    IF text = <<>> THEN <<>>
    ELSE IF IsWhitespace(Head(text)) THEN LStrip(Tail(text)) ELSE text

RECURSIVE RStrip(_)
RStrip(text) ==
    IF text = <<>> THEN <<>>
    ELSE IF IsWhitespace(text[Len(text)]) THEN RStrip(SubSeq(text, 1, Len(text) - 1))
    ELSE text

Strip(text) ==
    LET s == RStrip(LStrip(text)) IN IF s = <<>> THEN <<EmptyPara>> ELSE s

\* line 74
MaxAvailableTokens(context_limit, system_tokens, response_tokens, draft_user_prompt_tokens) ==
    context_limit - system_tokens - response_tokens - draft_user_prompt_tokens

\* line 91: the test that closes the current chunk
OverflowsOffByOne(token_count, para_tokens, max_available_tokens, current_chunk) ==
    token_count + para_tokens >= max_available_tokens /\ Truthy(current_chunk)

Overflows(token_count, para_tokens, max_available_tokens, current_chunk) ==
    token_count + para_tokens > max_available_tokens /\ Truthy(current_chunk)

\* line 93: the paragraph that did not fit opens the next chunk
StartChunkDropsPara(para) == <<EmptyPara>>

StartChunk(para) == <<para>>

\* lines 89-100: the loop over the paragraphs and the final flush
RECURSIVE ChunkLoop(_, _, _, _, _, _)
ChunkLoop(paragraphs, i, max_available_tokens, chunks, current_chunk, token_count) ==
    IF i > Len(paragraphs)
    THEN IF Truthy(current_chunk) THEN Append(chunks, Strip(current_chunk)) ELSE chunks
    ELSE LET para == paragraphs[i]
             para_tokens == count_tokens(para)
         IN  IF Overflows(token_count, para_tokens, max_available_tokens, current_chunk)
             THEN ChunkLoop(paragraphs, i + 1, max_available_tokens,
                            Append(chunks, Strip(current_chunk)),
                            StartChunk(para), para_tokens)
             ELSE ChunkLoop(paragraphs, i + 1, max_available_tokens, chunks,
                            Append(current_chunk, para), token_count + para_tokens)

CapacityExhaustedBelowZero(max_available_tokens) == max_available_tokens < 0

\* line 76: no room is left for document text.
CapacityExhausted(max_available_tokens) == max_available_tokens <= 0

\* lines 57-102.  raised: the ValueError of line 77; split: whether line 84 ran.
chunk_text_for_user_prompt(context_limit, response_tokens, system_tokens, template_tokens, full_text) ==
    LET max_available_tokens ==
            MaxAvailableTokens(context_limit, system_tokens, response_tokens,
                               template_tokens)
    IN  IF CapacityExhausted(max_available_tokens)
        THEN [raised |-> TRUE, split |-> FALSE, chunks |-> <<>>]
        ELSE [raised |-> FALSE, split |-> TRUE,
              chunks |-> ChunkLoop(full_text, 1, max_available_tokens,
                                   <<>>, <<EmptyPara>>, 0)]

Pending == [raised |-> FALSE, split |-> FALSE, chunks |-> <<>>, pending |-> TRUE]

ChunkInputs ==
    [CONTEXT_WINDOW : 1..MaxWindow,
     RESPONSE_TOKENS : 1..MaxResponseTokens,
     system_tokens : {1},
     draft_user_prompt_tokens : 0..MaxTemplateTokens,
     full_text : SeqsUpTo(Paragraphs, MaxParas)]

InitChunk == c_in \in ChunkInputs /\ c_out = Pending

IdleChunk ==
    /\ c_in = [CONTEXT_WINDOW |-> 1, RESPONSE_TOKENS |-> 1, system_tokens |-> 1,
               draft_user_prompt_tokens |-> 0, full_text |-> <<EmptyPara>>]
    /\ c_out = Pending

ChunkText ==
    /\ c_out = Pending
    /\ c_out' = chunk_text_for_user_prompt(c_in.CONTEXT_WINDOW, c_in.RESPONSE_TOKENS,
                    c_in.system_tokens, c_in.draft_user_prompt_tokens, c_in.full_text)
    /\ UNCHANGED c_in
    /\ UNCHANGED <<ingest_vars, merge_vars, extract_vars, pipe_vars, skel_vars>>

NextChunk == ChunkText

\* ======================================================================
\* Document ingestor: documents_parser.py, DocumentsParser
\* ======================================================================
\* Python's None, and a key a descriptor dict does not have.
None == "<None>"
Absent == "<absent>"

\* dict.get(key, default)
Get(doc, key, default) == IF doc[key] = Absent THEN default ELSE doc[key]

\* bool(v) of a string or None
IsTrue(v) == v \notin {None, ""}

\* ---- os.path.splitext: the extension starts at the last dot of the last path
\* component, leading dots of that component aside.
RECURSIVE LastIndexOf(_, _, _)
LastIndexOf(str, ch, i) ==
    IF i = 0 THEN 0
    ELSE IF SubSeq(str, i, i) = ch THEN i ELSE LastIndexOf(str, ch, i - 1)

RECURSIVE SkipDots(_, _)
SkipDots(str, i) ==
    IF i <= Len(str) /\ SubSeq(str, i, i) = "." THEN SkipDots(str, i + 1) ELSE i

splitext(name) ==
    LET base == LastIndexOf(name, "/", Len(name)) + 1
        dot == LastIndexOf(name, ".", Len(name))
    IN  IF dot > base /\ dot >= SkipDots(name, base)
        THEN <<SubSeq(name, 1, dot - 1), SubSeq(name, dot, Len(name))>>
        ELSE <<name, "">>

startswith(str, prefix) ==
    Len(str) >= Len(prefix) /\ SubSeq(str, 1, Len(prefix)) = prefix

endswith(str, suffix) ==
    Len(str) >= Len(suffix) /\ SubSeq(str, Len(str) - Len(suffix) + 1, Len(str)) = suffix

\* file_utils.py, get_file_type (the names of the model are lower-case already)
get_file_type(file_ext) ==
    LET ext == IF startswith(file_ext, ".") THEN file_ext ELSE "." \o file_ext
    IN  CASE ext = ".pdf" -> "PDF"
          [] ext = ".docx" -> "DOCX"
          [] ext = ".doc" -> "DOC"
          [] ext \in {".xls", ".xlsx"} -> "EXCEL"
          [] ext = ".csv" -> "CSV"
          [] ext = ".zip" -> "ZIP"
          [] ext \in {".txt", ".text"} -> "TEXT"
          [] ext \in {".html", ".htm"} -> "HTML"
          [] OTHER -> "UNSUPPORTED"

\* ext[1:] if ext.startswith('.') else ext
TypeOfExt(ext) == IF startswith(ext, ".") THEN SubSeq(ext, 2, Len(ext)) ELSE ext

ParsedDocumentData(id, name, type, path, url, preview, full_text) ==
    [id |-> id, name |-> name, type |-> type, path |-> path, url |-> url,
     preview |-> preview, full_text |-> full_text]

\* _parse_file: every parser catches its own failures (_handle_parsing_error), and
\* a type without a parser is an error content too.  readable: whether the file's
\* bytes parse.
parse_file(ext, readable) ==
    IF get_file_type(ext) \in {"PDF", "DOCX", "DOC", "EXCEL", "CSV"} /\ readable
    THEN [preview |-> "first blocks", full_text |-> "text"]
    ELSE [preview |-> "parsing error", full_text |-> ""]

\* _create_error_metadata
create_error_metadata(doc) ==
    ParsedDocumentData(Get(doc, "id", "unknown"), Get(doc, "file", "unknown"), "error",
                       None, Get(doc, "download_link", ""), "Error processing file", "")

\* _unpack_zip, line 238
ZipExtractDir(zip_path, doc_id) == "/tmp/" \o doc_id \o "_extracted"

\* _unpack_zip, line 248
ValidFiles(file_list) ==
    SelectSeq(file_list, LAMBDA f : ~endswith(f, "/") /\ ~startswith(f, "."))

\* A loop that would give every member a record, whatever its type.
IsSkippedNever(file_type) == FALSE

\* _unpack_zip, lines 261-264: members of an unsupported type are passed over.
IsSkipped(file_type) == file_type = "UNSUPPORTED"

\* A loop whose counter would advance over the entries it passes over as well.
RECURSIVE UnpackLoopCountsSkipped(_, _, _, _, _, _, _)
UnpackLoopCountsSkipped(valid_files, k, count, extracted, doc_id, dir, corrupt) ==
    IF k > Len(valid_files) THEN extracted
    ELSE LET file_name == valid_files[k]
             ext == splitext(file_name)[2]
         IN  IF IsSkipped(get_file_type(ext))
             THEN UnpackLoopCountsSkipped(valid_files, k + 1, count + 1, extracted, doc_id, dir, corrupt)
             ELSE LET parsed == parse_file(ext, file_name \notin corrupt)
                      zip_content_id ==
                          doc_id \o "_zip_" \o ToString(count) \o "_" \o splitext(file_name)[1]
                  IN  UnpackLoopCountsSkipped(valid_files, k + 1, count + 1,
                          Append(extracted,
                                 ParsedDocumentData(zip_content_id, file_name, TypeOfExt(ext),
                                     dir \o "/" \o file_name, None,
                                     parsed.preview, parsed.full_text)),
                          doc_id, dir, corrupt)

\* _unpack_zip, lines 251-284: the loop over valid_files.  The except of lines
\* 286-299 cannot be entered: _parse_file raises nothing.
RECURSIVE UnpackLoop(_, _, _, _, _, _, _)
UnpackLoop(valid_files, k, count, extracted, doc_id, dir, corrupt) ==
    IF k > Len(valid_files) THEN extracted
    ELSE LET file_name == valid_files[k]
             ext == splitext(file_name)[2]
         IN  IF IsSkipped(get_file_type(ext))
             THEN UnpackLoop(valid_files, k + 1, count, extracted, doc_id, dir, corrupt)
             ELSE LET parsed == parse_file(ext, file_name \notin corrupt)
                      zip_content_id ==
                          doc_id \o "_zip_" \o ToString(count) \o "_" \o splitext(file_name)[1]
                  IN  UnpackLoop(valid_files, k + 1, count + 1,
                          Append(extracted,
                                 ParsedDocumentData(zip_content_id, file_name, TypeOfExt(ext),
                                     dir \o "/" \o file_name, None,
                                     parsed.preview, parsed.full_text)),
                          doc_id, dir, corrupt)

\* os.path.basename
basename(path) == SubSeq(path, LastIndexOf(path, "/", Len(path)) + 1, Len(path))

\* The record of lines 301-311, for the archive as a whole.
ZipErrorDoc(zip_path, doc_id) ==
    ParsedDocumentData(doc_id \o "_zip_error", basename(zip_path), "zip", zip_path, None,
                       "Error unpacking ZIP", "Failed to unpack ZIP file")

\* An expansion that would hand back the members it can list next to the error.
unpack_zip_keeps_members(zip_path, doc_id, file_list, opens, corrupt) ==
    UnpackLoop(ValidFiles(file_list), 1, 1, <<>>, doc_id, ZipExtractDir(zip_path, doc_id), corrupt)
        \o (IF opens THEN <<>> ELSE <<ZipErrorDoc(zip_path, doc_id)>>)

\* _unpack_zip, lines 241-316.  opens: whether zipfile can open and extract it.
unpack_zip(zip_path, doc_id, file_list, opens, corrupt) ==
    IF ~opens
    THEN <<ZipErrorDoc(zip_path, doc_id)>>
    ELSE UnpackLoop(ValidFiles(file_list), 1, 1, <<>>, doc_id,
                    ZipExtractDir(zip_path, doc_id), corrupt)

\* What the environment does during one _process_document of a descriptor whose
\* file is `name`; the answers the code does not ask for are left at a default.
Environments(name, file_list) ==
    IF name \notin {Absent, None} /\ get_file_type(splitext(name)[2]) = "ZIP"
    THEN [fetched : BOOLEAN,     \* http_client.download_file returns a path, not None
          makedirs : BOOLEAN,    \* os.makedirs of the extraction directory succeeds
          opens : BOOLEAN,       \* the ZIP opens and extracts
          readable : {TRUE},
          \* the archive members whose bytes do not parse
          corrupt : SUBSET ({"m.pdf", "k.docx"} \cap {file_list[k] : k \in 1..Len(file_list)})]
    ELSE [fetched : BOOLEAN,
          makedirs : {TRUE},
          opens : {TRUE},
          readable : BOOLEAN,    \* the downloaded file's bytes parse
          corrupt : {{}}]

\* The path download_file gives the n-th descriptor's file.
DownloadPath(n, name) == "/tmp/tmp" \o ToString(n) \o splitext(name)[2]

\* _process_document, lines 337-342: all([doc_id, name, url])
HasRequiredInfo(doc_id, name, url) == IsTrue(doc_id) /\ IsTrue(name) /\ IsTrue(url)

\* _process_document, lines 414-417: the except branch appends one error record
ErrorOutcomeSwallows(doc) ==
    [records |-> <<>>, files |-> {}, failed |-> TRUE, fetch_failed |-> FALSE, unzip |-> "none"]

ErrorOutcome(doc) ==
    [records |-> <<create_error_metadata(doc)>>, files |-> {}, failed |-> TRUE,
     fetch_failed |-> FALSE, unzip |-> "none"]

\* _process_document, lines 332-422, for the n-th descriptor: the records it
\* appends to documents_data, the files it leaves on disk, and whether its
\* except branch ran (failed), because download_file returned None (fetch_failed),
\* and how the opening of its archive went (unzip).
process_document(doc, n, file_list, env) ==
    LET doc_id == Get(doc, "id", "unknown")
        name == Get(doc, "file", None)
        url == Get(doc, "download_link", None)
        failure == ErrorOutcome(doc)
    IN  IF ~HasRequiredInfo(doc_id, name, url) THEN failure
        ELSE IF ~env.fetched THEN [failure EXCEPT !.fetch_failed = TRUE]
        ELSE LET path == DownloadPath(n, name)
                 ext == splitext(name)[2]
                 file_type == get_file_type(ext)
             IN  IF file_type = "ZIP"
                 THEN IF ~env.makedirs
                      THEN [failure EXCEPT !.files = {path}]
                      ELSE LET zip_contents == unpack_zip(path, doc_id, file_list, env.opens, env.corrupt)
                               dir == ZipExtractDir(path, doc_id)
                               zip_doc == ParsedDocumentData(doc_id, name, "zip", path, url,
                                              "ZIP archive containing files", "ZIP archive")
                           IN  [records |-> <<zip_doc>> \o zip_contents,
                                files |-> {path, dir} \cup
                                    (IF env.opens
                                     THEN {dir \o "/" \o file_list[k] : k \in 1..Len(file_list)}
                                     ELSE {}),
                                failed |-> FALSE, fetch_failed |-> FALSE,
                                unzip |-> IF env.opens THEN "opened" ELSE "failed"]
                 ELSE IF file_type = "UNSUPPORTED"
                 THEN [records |-> <<ParsedDocumentData(doc_id, name, TypeOfExt(ext), path, url,
                                        "Unsupported file type", "File has unsupported format")>>,
                       files |-> {path}, failed |-> FALSE, fetch_failed |-> FALSE, unzip |-> "none"]
                 ELSE LET parsed == parse_file(ext, env.readable)
                      IN  [records |-> <<ParsedDocumentData(doc_id, name, TypeOfExt(ext), path, url,
                                             parsed.preview, parsed.full_text)>>,
                           files |-> {path}, failed |-> FALSE, fetch_failed |-> FALSE, unzip |-> "none"]

\* ---- inputs
DocIds == {Absent, None, "d1"}
FileNames == {Absent, "a.pdf", "b.zip", "c.xyz"}
Links == {Absent, "https://nen/file"}

\* A complete descriptor for each kind of file, and the descriptors of a.pdf with
\* one field missing.
Descriptors ==
    {d \in [id : DocIds, file : FileNames, download_link : Links] :
        LET missing == {k \in {"id", "file", "download_link"} : d[k] \in {Absent, None}}
        IN  \/ missing = {}
            \/ Cardinality(missing) = 1 /\ d.file \in {Absent, "a.pdf"}}

EntryNames == {"sub/", ".hid.pdf", "m.pdf", "n.xyz", "k.docx"}

\* Entry lists without a repeated name.
Archives ==
    {a \in {<<>>} \cup SeqsUpTo(EntryNames, MaxEntries) :
        \A i, j \in 1..Len(a) : i # j => a[i] # a[j]}

InitIngest ==
    /\ document_infos \in {<<>>} \cup SeqsUpTo(Descriptors, MaxDocs)
    /\ archive \in Archives
    /\ doc_index = 0
    /\ documents_data = <<>>
    /\ emitted = <<>>
    /\ escaped = FALSE
    /\ tmp_files = {}

IdleIngest ==
    /\ document_infos = <<>>
    /\ archive = <<>>
    /\ doc_index = 0
    /\ documents_data = <<>>
    /\ emitted = <<>>
    /\ escaped = FALSE
    /\ tmp_files = {}

\* A turn that would remove what it created once its records are appended.
FilesAfterReleasing(before, created) == before

\* The files on disk after a turn: neither _process_document nor _unpack_zip
\* removes the download, the extraction directory or what was extracted into it.
FilesAfter(before, created) == before \cup created

\* One turn of the loop of _process_all_documents (lines 427-428).
ProcessDocument ==
    /\ doc_index < Len(document_infos)
    /\ ~escaped
    /\ \E env \in Environments(document_infos[doc_index + 1].file, archive) :
        LET r == process_document(document_infos[doc_index + 1], doc_index + 1, archive, env)
        IN  /\ documents_data' = documents_data \o r.records
            /\ emitted' = Append(emitted, r)
            /\ tmp_files' = FilesAfter(tmp_files, r.files)
    /\ doc_index' = doc_index + 1
    /\ UNCHANGED <<document_infos, archive, escaped>>
    /\ UNCHANGED <<chunk_vars, merge_vars, extract_vars, pipe_vars, skel_vars>>

NextIngest == ProcessDocument

\* ======================================================================
\* Merge engine: tender_llm_extractor.py, BaseLLMProcessor._accumulate_data
\* ======================================================================
\* Python values, tagged with their runtime type. A list is held as the set of
\* its elements: list(set(...)) leaves the order of a merged list unspecified.
PyNone == [t |-> "NoneType"]
Str(s) == [t |-> "str", v |-> s]
Float(x) == [t |-> "float", v |-> x]
Bool(b) == [t |-> "bool", v |-> b]
List(S) == [t |-> "list", v |-> S]
Dict(f) == [t |-> "dict", v |-> f]

\* The dict with no key.
EmptyDict == [k \in {} |-> PyNone]

\* bool(value)
PyTruthy(value) ==
    CASE value.t = "NoneType" -> FALSE
      [] value.t = "bool" -> value.v
      [] value.t = "str" -> value.v # ""
      [] value.t = "float" -> value.v # 0
      [] value.t = "list" -> value.v # {}
      [] value.t = "dict" -> DOMAIN value.v # {}

\* str(value) of a scalar.
PyStr(value) ==
    CASE value.t = "str" -> value.v
      [] value.t = "float" -> ToString(value.v)
      [] value.t = "bool" -> IF value.v THEN "True" ELSE "False"
      [] value.t = "NoneType" -> "None"

\* d.get(key, default), d[key] = value and d.update(e) on a dict held as a function.
DictGet(d, key, default) == IF key \in DOMAIN d THEN d[key] ELSE default

DictSet(d, key, value) == [k \in DOMAIN d \cup {key} |-> IF k = key THEN value ELSE d[k]]

DictUpdate(d, e) == [k \in DOMAIN d \cup DOMAIN e |-> IF k \in DOMAIN e THEN e[k] ELSE d[k]]

\* A fragment (new_data) is the sequence of its items in the order json.loads
\* read them, which is the order new_data.items() visits them.
HasKey(new_data, key) == \E i \in 1..Len(new_data) : new_data[i].key = key

ItemsGet(new_data, key, default) ==
    IF HasKey(new_data, key)
    THEN new_data[CHOOSE i \in 1..Len(new_data) : new_data[i].key = key].value
    ELSE default

ConfidenceKey == "extraction_confidence_score"

\* is_higher_confidence: `>` raises TypeError when an operand is None.
is_higher_confidence(new_data, existing_data) ==
    LET new_conf == ItemsGet(new_data, ConfidenceKey, Float(0))
        existing_conf == DictGet(existing_data, ConfidenceKey, Float(0))
    IN  IF new_conf.t = "float" /\ existing_conf.t = "float"
        THEN [raised |-> FALSE, value |-> new_conf.v > existing_conf.v]
        ELSE [raised |-> TRUE, value |-> FALSE]

Merged(accumulated) == [raised |-> FALSE, accumulated |-> accumulated]

MergeRaised(accumulated) == [raised |-> TRUE, accumulated |-> accumulated]

\* isinstance(value, list)
MergeList(key, value, accumulated) ==
    LET existing == DictGet(accumulated, key, List({}))
    IN  IF existing.t = "list"
        THEN Merged(DictSet(accumulated, key, List(existing.v \cup value.v)))
        ELSE MergeRaised(accumulated)

\* isinstance(value, dict)
MergeDict(key, value, accumulated) ==
    LET existing == DictGet(accumulated, key, Dict(EmptyDict))
    IN  IF existing = PyNone
        THEN Merged(DictSet(accumulated, key, value))
        ELSE IF existing.t = "dict"
             THEN Merged(DictSet(accumulated, key, Dict(DictUpdate(existing.v, value.v))))
             ELSE MergeRaised(accumulated)

MergeBoolOverwrites(key, value, accumulated) == Merged(DictSet(accumulated, key, value))

\* isinstance(value, bool): accumulated.get(key, False) or value
MergeBool(key, value, accumulated) ==
    LET existing == DictGet(accumulated, key, Bool(FALSE))
    IN  Merged(DictSet(accumulated, key, IF PyTruthy(existing) THEN existing ELSE value))

\* isinstance(value, str) and len(value) > len(str(existing))
IsLongerText(value, existing) == value.t = "str" /\ Len(value.v) > Len(PyStr(existing))

\* value is not None and value != ""
MergeScalar(key, value, new_data, accumulated) ==
    LET existing == DictGet(accumulated, key, PyNone)
        higher == is_higher_confidence(new_data, accumulated)
    IN  IF existing = PyNone \/ IsLongerText(value, existing)
        THEN Merged(DictSet(accumulated, key, value))
        ELSE IF higher.raised
             THEN MergeRaised(accumulated)
             ELSE IF higher.value
                  THEN Merged(DictSet(accumulated, key, value))
                  ELSE Merged(accumulated)

\* One turn of the loop over new_data.items().
MergeItem(key, value, new_data, accumulated) ==
    CASE value.t = "list" -> MergeList(key, value, accumulated)
      [] value.t = "dict" -> MergeDict(key, value, accumulated)
      [] value.t = "bool" -> MergeBool(key, value, accumulated)
      [] value.t \in {"str", "float"} /\ ~(value.t = "str" /\ value.v = "") ->
            MergeScalar(key, value, new_data, accumulated)
      [] OTHER -> Merged(accumulated)

RECURSIVE AccumulateFrom(_, _, _)
AccumulateFrom(new_data, i, accumulated) ==
    IF i > Len(new_data)
    THEN Merged(accumulated)
    ELSE LET r == MergeItem(new_data[i].key, new_data[i].value, new_data, accumulated)
         IN  IF r.raised THEN r ELSE AccumulateFrom(new_data, i + 1, r.accumulated)

\* _accumulate_data(new_data, accumulated): the aggregate it leaves, and whether
\* it raised.
accumulate_data(new_data, accumulated) == AccumulateFrom(new_data, 1, accumulated)

\* ---- the record shape and its skeleton
\* The fields of a dataclass, in declaration order. LLMExtractedData and
\* SemanticTenderDetail are cut down to one field of each kind they declare.
Field(name, type, optional, cls) == [name |-> name, type |-> type, optional |-> optional, cls |-> cls]

LLMExtractedData == <<Field("executive_summary", "str", FALSE, <<>>)>>

SemanticTenderDetail ==
    <<Field("llm_extracted", "dataclass", TRUE, LLMExtractedData),
      Field("technical_complexity_score", "float", TRUE, <<>>),
      Field("semantic_tags", "list", FALSE, <<>>),
      Field(ConfidenceKey, "float", TRUE, <<>>)>>

FieldNames(cls) == {cls[i].name : i \in 1..Len(cls)}

FieldNamed(cls, name) == cls[CHOOSE i \in 1..Len(cls) : cls[i].name = name]

\* A skeleton that would leave an Optional nested dataclass at None.
RECURSIVE empty_dict_without_nesting(_)
empty_dict_without_nesting(cls) ==
    [name \in FieldNames(cls) |->
        LET field == FieldNamed(cls, name)
        IN  CASE field.type = "dataclass" /\ ~field.optional ->
                     Dict(empty_dict_without_nesting(field.cls))
              [] field.type = "list" -> List({})
              [] field.type = "dict" -> Dict(EmptyDict)
              [] field.type = "bool" -> Bool(FALSE)
              [] OTHER -> PyNone]

RECURSIVE empty_dict_from_dataclass(_)
empty_dict_from_dataclass(cls) ==
    [name \in FieldNames(cls) |->
        LET field == FieldNamed(cls, name)
        IN  CASE field.type = "dataclass" -> Dict(empty_dict_from_dataclass(field.cls))
              [] field.type = "list" -> List({})
              [] field.type = "dict" -> Dict(EmptyDict)
              [] field.type = "bool" -> Bool(FALSE)
              [] OTHER -> PyNone]

\* ---- the fragments a tool-call response can carry
\* Keys of a fragment besides extraction_confidence_score.
MaxFragmentKeys == 1

\* What json.loads can give for each key. summary and is_framework are keys the
\* record shape does not declare: _accumulate_data merges whatever keys arrive.
FragmentValues ==
    [llm_extracted |-> {Dict(EmptyDict), Dict([executive_summary |-> PyNone]),
                        Dict([executive_summary |-> Str("A")]),
                        Dict([executive_summary |-> Str("B")])},
     technical_complexity_score |-> {Float(7), Float(12)},
     semantic_tags |-> {List({}), List({"x"}), List({"y"})},
     summary |-> {Str(""), Str("ab"), Str("cd"), Str("abc")},
     is_framework |-> {Bool(FALSE), Bool(TRUE)}]

\* extraction_confidence_score of a fragment, in tenths.
ConfidenceValues == {PyNone, Float(2), Float(9)}

KeyOrder == <<"llm_extracted", "technical_complexity_score", "semantic_tags", "summary", "is_framework">>

Item(key, value) == [key |-> key, value |-> value]

RECURSIVE ItemsFrom(_, _)
ItemsFrom(f, i) ==
    IF i > Len(KeyOrder) THEN <<>>
    ELSE IF KeyOrder[i] \in DOMAIN f
         THEN <<Item(KeyOrder[i], f[KeyOrder[i]])>> \o ItemsFrom(f, i + 1)
         ELSE ItemsFrom(f, i + 1)

FragmentBodies ==
    UNION {{f \in [K -> UNION {FragmentValues[k] : k \in K}] : \A k \in K : f[k] \in FragmentValues[k]} :
              K \in {K \in SUBSET DOMAIN FragmentValues : Cardinality(K) <= MaxFragmentKeys}}

\* The skeleton itself, as a fragment.
SkeletonFragment ==
    [i \in 1..Len(SemanticTenderDetail) |->
        Item(SemanticTenderDetail[i].name,
             empty_dict_from_dataclass(SemanticTenderDetail)[SemanticTenderDetail[i].name])]

\* The confidence score comes first or last among the keys, or not at all.
Fragments ==
    {ItemsFrom(f, 1) : f \in FragmentBodies}
    \cup {<<Item(ConfidenceKey, c)>> \o ItemsFrom(f, 1) : f \in FragmentBodies, c \in ConfidenceValues}
    \cup {ItemsFrom(f, 1) \o <<Item(ConfidenceKey, c)>> : f \in FragmentBodies, c \in ConfidenceValues}
    \cup {SkeletonFragment}

InitMerge ==
    /\ aggregate = empty_dict_from_dataclass(SemanticTenderDetail)
    /\ merge_raised = FALSE

IdleMerge ==
    /\ aggregate = EmptyDict
    /\ merge_raised = FALSE

\* One call of _accumulate_data on the current aggregate. An exception ends the
\* extraction that was merging.
AccumulateData ==
    /\ ~merge_raised
    /\ \E new_data \in Fragments :
        LET r == accumulate_data(new_data, aggregate)
        IN  /\ aggregate' = r.accumulated
            /\ merge_raised' = r.raised
    /\ UNCHANGED <<chunk_vars, ingest_vars, extract_vars, pipe_vars, skel_vars>>

NextMerge == AccumulateData

\* ======================================================================
\* Semantic extraction: tender_pipeline.py, _extract_semantic_data;
\* tender_llm_extractor.py, process and _extract_from_documents
\* ======================================================================
\* Documents handed to one extraction.
MaxExtractDocs == 2

\* dacite.from_dict(data_class, data): a field's value has the field's type, None
\* only where the field is Optional; keys the class does not declare are dropped.
RECURSIVE from_dict(_, _)
from_dict(data_class, data) ==
    LET Built(field) ==
            LET value == DictGet(data, field.name, PyNone)
            IN  IF value = PyNone
                THEN [raised |-> ~field.optional, value |-> value]
                ELSE IF field.type = "dataclass"
                     THEN IF value.t = "dict"
                          THEN LET r == from_dict(field.cls, value.v)
                               IN  [raised |-> r.raised, value |-> Dict(r.value)]
                          ELSE [raised |-> TRUE, value |-> value]
                     ELSE [raised |-> value.t # field.type, value |-> value]
    IN  [raised |-> \E i \in 1..Len(data_class) : Built(data_class[i]).raised,
         value |-> [name \in FieldNames(data_class) |-> Built(FieldNamed(data_class, name)).value]]

\* Tokens of json.dumps of a value beyond those of the bare skeleton, whose
\* tokens are counted with the tender metadata.
RECURSIVE SumOver(_, _)
SumOver(f, S) == IF S = {} THEN 0 ELSE LET k == CHOOSE k \in S : TRUE IN f[k] + SumOver(f, S \ {k})

RECURSIVE JsonTokens(_)
JsonTokens(value) ==
    CASE value.t = "str" -> Len(value.v)
      [] value.t = "float" -> 1
      [] value.t = "list" -> Cardinality(value.v)
      [] value.t = "dict" -> SumOver([k \in DOMAIN value.v |-> JsonTokens(value.v[k])], DOMAIN value.v)
      [] OTHER -> 0

\* The texts of parsed documents: paragraphs by their token counts.
ExtractTexts == {<<1>>, <<2, 2>>, <<3>>}

\* The replies of the generation call, as json.loads reads them.
Replies ==
    {<<Item("llm_extracted", Dict([executive_summary |-> Str("A")])), Item(ConfidenceKey, Float(9))>>,
     <<Item("semantic_tags", List({"x"}))>>,
     <<Item("technical_complexity_score", Float(7))>>,
     <<Item("technical_complexity_score", Float(12))>>}

\* The outcomes of one generation call: a reply, or an exception of the client.
CallFailed == <<Item("<exception>", PyNone)>>

ExtractConfigs ==
    [CONTEXT_WINDOW : 1..MaxWindow, RESPONSE_TOKENS : {1}, system_tokens : {1}, metadata_tokens : {1}]

NoTender == [semantic_data |-> PyNone, processing_stage |-> "RAW_SCRAPED", processing_errors |-> <<>>]

InitExtract ==
    /\ x_config \in ExtractConfigs
    /\ x_documents \in {<<>>} \cup SeqsUpTo(ExtractTexts, MaxExtractDocs)
    /\ x_pc = "ready"
    /\ x_doc = 0
    /\ x_chunked = <<>>
    /\ x_chunk = 0
    /\ x_accumulated = EmptyDict
    /\ x_already = EmptyDict
    /\ total_calls = 0
    /\ calls = <<>>
    /\ tender = [semantic_data |-> PyNone, processing_stage |-> "DOCUMENTS_PARSED", processing_errors |-> <<>>]

IdleExtract ==
    /\ x_config = [CONTEXT_WINDOW |-> 1, RESPONSE_TOKENS |-> 1, system_tokens |-> 1, metadata_tokens |-> 1]
    /\ x_documents = <<>>
    /\ x_pc = "idle"
    /\ x_doc = 0
    /\ x_chunked = <<>>
    /\ x_chunk = 0
    /\ x_accumulated = EmptyDict
    /\ x_already = EmptyDict
    /\ total_calls = 0
    /\ calls = <<>>
    /\ tender = NoTender

\* An except clause that would put the record back to its first stage.
ExtractionFailedResetsStage ==
    /\ x_pc' = "failed"
    /\ tender' = [tender EXCEPT !.processing_errors = Append(@, "Semantic extraction failed"),
                                !.processing_stage = "RAW_SCRAPED"]

\* An except clause that would keep what was merged before the failure.
ExtractionFailedStoresPartial ==
    /\ x_pc' = "failed"
    /\ tender' = [tender EXCEPT !.processing_errors = Append(@, "Semantic extraction failed"),
                                !.semantic_data = Dict(x_accumulated)]

\* The except clause of _extract_semantic_data: the error is appended, the
\* semantic data and the stage stay.
ExtractionFailed ==
    /\ x_pc' = "failed"
    /\ tender' = [tender EXCEPT !.processing_errors = Append(@, "Semantic extraction failed")]

\* A process that would build the skeleton once and go on with the dictionary
\* of the call before.
StartExtractionReusesAggregate ==
    /\ x_pc = "ready"
    /\ p_args.source_name = "NEN"
    /\ x_pc' = "document"
    /\ x_doc' = 1
    /\ x_accumulated' = IF x_accumulated = EmptyDict
                        THEN empty_dict_from_dataclass(SemanticTenderDetail)
                        ELSE x_accumulated
    /\ total_calls' = 0
    /\ UNCHANGED <<x_config, x_documents, x_chunked, x_chunk, x_already, calls, tender>>
    /\ UNCHANGED <<chunk_vars, ingest_vars, merge_vars, pipe_vars, skel_vars>>

\* _extract_semantic_data up to the loop over the documents: process builds the
\* skeleton, _extract_from_documents copies it.
StartExtraction ==
    /\ x_pc = "ready"
    /\ p_args.source_name = "NEN"
    /\ x_pc' = "document"
    /\ x_doc' = 1
    /\ x_accumulated' = empty_dict_from_dataclass(SemanticTenderDetail)
    /\ total_calls' = 0
    /\ UNCHANGED <<x_config, x_documents, x_chunked, x_chunk, x_already, calls, tender>>
    /\ UNCHANGED <<chunk_vars, ingest_vars, merge_vars, pipe_vars, skel_vars>>

\* The head of one turn of the loop over the documents: the aggregate is dumped
\* and the text is chunked against the budget the dump leaves.
ChunkDocument ==
    /\ x_pc = "document"
    /\ x_doc <= Len(x_documents)
    /\ LET template_tokens == x_config.metadata_tokens + JsonTokens(Dict(x_accumulated))
           r == chunk_text_for_user_prompt(x_config.CONTEXT_WINDOW, x_config.RESPONSE_TOKENS,
                    x_config.system_tokens, template_tokens, x_documents[x_doc])
       IN  /\ x_already' = x_accumulated
           /\ x_chunked' = Append(x_chunked, r)
           /\ IF r.raised
              THEN ExtractionFailed /\ UNCHANGED x_chunk
              ELSE x_pc' = "chunk" /\ x_chunk' = 1 /\ UNCHANGED tender
    /\ UNCHANGED <<x_config, x_documents, x_doc, x_accumulated, total_calls, calls>>
    /\ UNCHANGED <<chunk_vars, ingest_vars, merge_vars, pipe_vars, skel_vars>>

\* One turn of the loop over the chunks: the generation call, json.loads and the
\* merge of the fragment; after the last chunk, total_calls += 1 and the next document.
ExtractChunk ==
    /\ x_pc = "chunk"
    /\ \E new_data \in Replies \cup {CallFailed} :
        /\ calls' = Append(calls, [doc |-> x_doc, chunk |-> x_chunk, ok |-> new_data # CallFailed,
                                   reply |-> new_data])
        /\ IF new_data = CallFailed
           THEN ExtractionFailed /\ UNCHANGED <<x_accumulated, x_chunk, x_doc, total_calls>>
           ELSE LET r == accumulate_data(new_data, x_accumulated)
             IN  /\ x_accumulated' = r.accumulated
                 /\ IF r.raised
                    THEN ExtractionFailed /\ UNCHANGED <<x_chunk, x_doc, total_calls>>
                    ELSE IF x_chunk < Len(x_chunked[x_doc].chunks)
                         THEN /\ x_chunk' = x_chunk + 1
                              /\ UNCHANGED <<x_pc, x_doc, total_calls, tender>>
                         ELSE /\ x_pc' = "document"
                              /\ x_doc' = x_doc + 1
                              /\ total_calls' = total_calls + 1
                              /\ UNCHANGED <<x_chunk, tender>>
    /\ UNCHANGED <<x_config, x_documents, x_chunked, x_already>>
    /\ UNCHANGED <<chunk_vars, ingest_vars, merge_vars, pipe_vars, skel_vars>>

\* A return that would not wait for the documents still to come.
FinishExtractionEarly ==
    /\ x_pc = "document"
    /\ LET r == from_dict(SemanticTenderDetail, x_accumulated)
       IN  IF r.raised
           THEN ExtractionFailed
           ELSE /\ x_pc' = "done"
                /\ tender' = [tender EXCEPT !.semantic_data = Dict(r.value),
                                            !.processing_stage = "SEMANTIC_PROCESSED"]
    /\ UNCHANGED <<x_config, x_documents, x_doc, x_chunked, x_chunk, x_accumulated, x_already, total_calls, calls>>
    /\ UNCHANGED <<chunk_vars, ingest_vars, merge_vars, pipe_vars, skel_vars>>

\* After the last document: from_dict builds the typed record, and
\* _extract_semantic_data stores it and sets the stage.
FinishExtraction ==
    /\ x_pc = "document"
    /\ x_doc > Len(x_documents)
    /\ LET r == from_dict(SemanticTenderDetail, x_accumulated)
       IN  IF r.raised
           THEN ExtractionFailed
           ELSE /\ x_pc' = "done"
                /\ tender' = [tender EXCEPT !.semantic_data = Dict(r.value),
                                            !.processing_stage = "SEMANTIC_PROCESSED"]
    /\ UNCHANGED <<x_config, x_documents, x_doc, x_chunked, x_chunk, x_accumulated, x_already, total_calls, calls>>
    /\ UNCHANGED <<chunk_vars, ingest_vars, merge_vars, pipe_vars, skel_vars>>

\* initial_accumulated as the caller of _extract_from_documents holds it while
\* the loops run.  accumulated = initial_accumulated.copy() (line 504) copies one
\* level only: a mapping nested in the skeleton is one object under both, and
\* existing.update(value) (line 558) writes into that object; lists and scalars
\* are rebound in the copy alone.  For Replies the keys that hold a mapping keep
\* holding that object.
initial_accumulated ==
    LET initial_result == empty_dict_from_dataclass(SemanticTenderDetail)
    IN  [key \in DOMAIN initial_result |->
            IF initial_result[key].t = "dict" /\ x_accumulated[key].t = "dict"
            THEN x_accumulated[key]
            ELSE initial_result[key]]

\* process_batch goes on to the next tender, whether the one before succeeded or
\* not, and _get_tender_extractor hands out the extractor it made for the first.
\* The dictionaries of the call before are left as they are: nothing clears them.
NextTender ==
    /\ x_pc \in {"done", "failed"}
    /\ x_pc' = "ready"
    /\ x_documents' \in {<<>>} \cup SeqsUpTo(ExtractTexts, MaxExtractDocs)
    /\ x_doc' = 0
    /\ x_chunked' = <<>>
    /\ x_chunk' = 0
    /\ total_calls' = 0
    /\ calls' = <<>>
    /\ tender' = [semantic_data |-> PyNone, processing_stage |-> "DOCUMENTS_PARSED", processing_errors |-> <<>>]
    /\ UNCHANGED <<x_config, x_accumulated, x_already>>
    /\ UNCHANGED <<chunk_vars, ingest_vars, merge_vars, pipe_vars, skel_vars>>

NextBatch == StartExtraction \/ ChunkDocument \/ ExtractChunk \/ FinishExtraction \/ NextTender

NextExtract == StartExtraction \/ ChunkDocument \/ ExtractChunk \/ FinishExtraction

\* ======================================================================
\* Pipeline: tender_pipeline.py, TenderProcessingPipeline.process_from_source
\* ======================================================================
\* The stages in their order.
StageRank(stage) ==
    CASE stage = "RAW_SCRAPED" -> 0
      [] stage = "UNIFIED_MAPPED" -> 1
      [] stage = "DOCUMENTS_PARSED" -> 2
      [] stage = "SEMANTIC_PROCESSED" -> 3
      [] stage = "VECTOR_INDEXED" -> 4
      [] stage = "COMPLETED" -> 5

NoSteps == [infos |-> 0, parse |-> "pending", kinds |-> <<>>, index |-> "pending"]

PipelineArgs ==
    [source_name : {"NEN", "TED"}, skip_documents : BOOLEAN, skip_llm : BOOLEAN,
     skip_vector_search : BOOLEAN, vector_search : BOOLEAN]

InitPipe ==
    /\ p_pc = "map"
    /\ p_args \in PipelineArgs
    /\ p_steps = NoSteps
    /\ unified_tender = None
    /\ x_config \in ExtractConfigs
    /\ x_documents = <<>>
    /\ x_pc = "idle"
    /\ x_doc = 0
    /\ x_chunked = <<>>
    /\ x_chunk = 0
    /\ x_accumulated = EmptyDict
    /\ x_already = EmptyDict
    /\ total_calls = 0
    /\ calls = <<>>
    /\ tender = NoTender

IdlePipe ==
    /\ p_pc = "idle"
    /\ p_args = [source_name |-> "NEN", skip_documents |-> FALSE, skip_llm |-> FALSE,
                 skip_vector_search |-> FALSE, vector_search |-> FALSE]
    /\ p_steps = NoSteps
    /\ unified_tender = None

\* Step 1: SourceMapperRegistry.map_to_unified gives the record, with the
\* descriptors of the source and the stage RAW_SCRAPED.
MapToUnified ==
    /\ p_pc = "map"
    /\ p_pc' = "parse"
    /\ unified_tender' = "tender"
    /\ tender' = NoTender
    /\ \E n \in 0..MaxExtractDocs : p_steps' = [p_steps EXCEPT !.infos = n]
    /\ UNCHANGED <<p_args, x_config, x_documents, x_pc, x_doc, x_chunked, x_chunk, x_accumulated, x_already, total_calls, calls>>
    /\ UNCHANGED <<chunk_vars, ingest_vars, merge_vars, skel_vars>>

RECURSIVE Repeat(_, _)
Repeat(msg, k) == IF k = 0 THEN <<>> ELSE <<msg>> \o Repeat(msg, k - 1)

\* The records DocumentsParser adds to tender.parsed_documents, by kind and by
\* their full_text: the text of a parsed file; "" for the record of a descriptor
\* that failed; the one line that stands for an unsupported file or for an
\* archive.
DocumentRecords ==
    [kind : {"parsed"}, text : ExtractTexts]
        \cup {[kind |-> "error", text |-> <<EmptyPara>>],
              [kind |-> "unsupported", text |-> <<1>>],
              [kind |-> "wrapper", text |-> <<1>>]}

\* What DocumentsParser leaves in tender.parsed_documents for n descriptors when
\* it completes: at least one record for each.
ParsedDocuments(n) == {docs \in {<<>>} \cup SeqsUpTo(DocumentRecords, MaxExtractDocs) : Len(docs) >= n}

\* add_processing_error is called once for each record of the kind error.
ErrorsOf(docs) == Repeat("Document parsing error", Cardinality({i \in DOMAIN docs : docs[i].kind = "error"}))

\* Step 2: _parse_documents, when documents are there and not skipped. The
\* parser records an error for each descriptor that fails and sets the stage
\* when it has gone through all of them; an exception that leaves it is caught,
\* recorded, and leaves the stage.
ParseDocuments ==
    /\ p_pc = "parse"
    /\ p_pc' = "extract"
    /\ x_pc' = IF p_args.skip_llm THEN "idle" ELSE "ready"
    /\ IF p_args.skip_documents \/ p_steps.infos = 0
       THEN /\ p_steps' = [p_steps EXCEPT !.parse = "skipped"]
            /\ UNCHANGED <<tender, x_documents>>
       ELSE \/ \E docs \in ParsedDocuments(p_steps.infos) :
                  /\ p_steps' = [p_steps EXCEPT !.parse = "parsed",
                                                !.kinds = [i \in DOMAIN docs |-> docs[i].kind]]
                  /\ x_documents' = [i \in DOMAIN docs |-> docs[i].text]
                  /\ tender' = [tender EXCEPT
                                   !.processing_errors = @ \o ErrorsOf(docs),
                                   !.processing_stage = "DOCUMENTS_PARSED"]
            \/ \E docs \in {<<>>} \cup SeqsUpTo(DocumentRecords, MaxExtractDocs) :
                  /\ Len(docs) < p_steps.infos
                  /\ p_steps' = [p_steps EXCEPT !.parse = "failed",
                                                !.kinds = [i \in DOMAIN docs |-> docs[i].kind]]
                  /\ x_documents' = [i \in DOMAIN docs |-> docs[i].text]
                  /\ tender' = [tender EXCEPT
                                   !.processing_errors =
                                       Append(@ \o ErrorsOf(docs), "Document parsing failed")]
    /\ UNCHANGED <<p_args, unified_tender, x_config, x_doc, x_chunked, x_chunk, x_accumulated, x_already, total_calls, calls>>
    /\ UNCHANGED <<chunk_vars, ingest_vars, merge_vars, skel_vars>>

\* Step 3 for a source other than NEN: _get_tender_extractor gives None for the
\* language 'en', and the call of process on it raises inside the try.
ExtractorMissing ==
    /\ x_pc = "ready"
    /\ p_args.source_name # "NEN"
    /\ ExtractionFailed
    /\ UNCHANGED <<x_config, x_documents, x_doc, x_chunked, x_chunk, x_accumulated, x_already, total_calls, calls>>
    /\ UNCHANGED <<chunk_vars, ingest_vars, merge_vars, pipe_vars, skel_vars>>

\* Step 4, after step 3 has ended or was skipped: _save_to_database does nothing.
SaveToDatabase ==
    /\ p_pc = "extract"
    /\ x_pc \in {"idle", "done", "failed"}
    /\ p_pc' = "index"
    /\ UNCHANGED <<p_args, p_steps, unified_tender, extract_vars>>
    /\ UNCHANGED <<chunk_vars, ingest_vars, merge_vars, skel_vars>>

\* Step 5: _index_in_vector_search returns the tender when add_items succeeds,
\* and nothing when it raises.
IndexInVectorSearch ==
    /\ p_pc = "index"
    /\ p_pc' = "complete"
    /\ IF p_args.vector_search /\ ~p_args.skip_vector_search /\ tender.semantic_data # PyNone
       THEN \/ /\ p_steps' = [p_steps EXCEPT !.index = "indexed"]
               /\ tender' = [tender EXCEPT !.processing_stage = "VECTOR_INDEXED"]
               /\ UNCHANGED unified_tender
            \/ /\ p_steps' = [p_steps EXCEPT !.index = "failed"]
               /\ tender' = [tender EXCEPT
                                !.processing_errors = Append(@, "Vector indexing failed")]
               /\ unified_tender' = None
       ELSE /\ p_steps' = [p_steps EXCEPT !.index = "skipped"]
            /\ UNCHANGED <<tender, unified_tender>>
    /\ UNCHANGED <<p_args, x_config, x_documents, x_pc, x_doc, x_chunked, x_chunk, x_accumulated, x_already, total_calls, calls>>
    /\ UNCHANGED <<chunk_vars, ingest_vars, merge_vars, skel_vars>>

\* Lines 81-85: the stage is set on unified_tender, which is then returned.
Complete ==
    /\ p_pc = "complete"
    /\ IF unified_tender = None
       THEN p_pc' = "raised" /\ UNCHANGED tender
       ELSE /\ p_pc' = "returned"
            /\ tender' = [tender EXCEPT !.processing_stage = "COMPLETED"]
    /\ UNCHANGED <<p_args, p_steps, unified_tender, x_config, x_documents, x_pc, x_doc, x_chunked, x_chunk, x_accumulated, x_already, total_calls, calls>>
    /\ UNCHANGED <<chunk_vars, ingest_vars, merge_vars, skel_vars>>

NextPipe ==
    \/ MapToUnified
    \/ ParseDocuments
    \/ StartExtraction
    \/ ExtractorMissing
    \/ ChunkDocument
    \/ ExtractChunk
    \/ FinishExtraction
    \/ SaveToDatabase
    \/ IndexInVectorSearch
    \/ Complete

\* ======================================================================
\* Schema compiler: helpers.py, _get_properties_and_required
\* ======================================================================
MaxFields == 2

\* type_map.get(actual_type, "string")
type_map(type) ==
    CASE type = "str" -> "string"
      [] type = "int" -> "integer"
      [] type = "float" -> "number"
      [] type = "bool" -> "boolean"
      [] OTHER -> "string"

\* The properties and the required names of a dataclass.  The list and dict
\* branches look at the origin of the annotation as written, so Optional[List[..]]
\* and Optional[Dict[..]] fall through to type_map; list items are strings.
RECURSIVE get_properties_and_required(_)
get_properties_and_required(cls) ==
    [properties |->
        [name \in FieldNames(cls) |->
            LET field == FieldNamed(cls, name)
            IN  IF field.type = "dataclass"
                THEN LET nested == get_properties_and_required(field.cls)
                     IN  [type |-> "object", properties |-> nested.properties,
                          required |-> nested.required]
                ELSE IF field.type = "list" /\ ~field.optional
                THEN [type |-> "array", items |-> [type |-> "string"]]
                ELSE IF field.type = "dict" /\ ~field.optional
                THEN [type |-> "object", additionalProperties |-> TRUE]
                ELSE [type |-> type_map(field.type)]],
     required |-> SelectSeq([i \in 1..Len(cls) |-> cls[i].name],
                            LAMBDA name : ~FieldNamed(cls, name).optional)]

\* ---- inputs: dataclasses of up to MaxFields fields, each of any annotation the
\* two functions tell apart, nested dataclasses among them.
NestedClasses ==
    {<<Field("x", "str", FALSE, <<>>)>>,
     <<Field("x", "str", TRUE, <<>>), Field("y", "list", FALSE, <<>>)>>,
     <<Field("inner", "dataclass", TRUE, <<Field("z", "bool", FALSE, <<>>)>>)>>}

Annotations ==
    [type : {"str", "float", "bool", "list", "dict"}, optional : BOOLEAN, cls : {<<>>}]
        \cup [type : {"dataclass"}, optional : BOOLEAN, cls : NestedClasses]

FieldNameAt == <<"a", "b", "c", "d">>

Dataclasses ==
    {[i \in 1..Len(an) |-> Field(FieldNameAt[i], an[i].type, an[i].optional, an[i].cls)] :
        an \in SeqsUpTo(Annotations, MaxFields)}

InitSkel ==
    /\ s_cls \in Dataclasses
    /\ s_done = {}
    /\ s_skeleton = EmptyDict
    /\ s_schema = get_properties_and_required(<<>>)

IdleSkel ==
    /\ s_cls = <<>>
    /\ s_done = {}
    /\ s_skeleton = EmptyDict
    /\ s_schema = get_properties_and_required(<<>>)

\* TenderExtractorCZ.setup compiles the contract from self.output_model ...
CompileSchema ==
    /\ s_cls # <<>>
    /\ "schema" \notin s_done
    /\ s_done' = s_done \cup {"schema"}
    /\ s_schema' = get_properties_and_required(s_cls)
    /\ UNCHANGED <<s_cls, s_skeleton>>
    /\ UNCHANGED <<chunk_vars, ingest_vars, merge_vars, extract_vars, pipe_vars>>

\* ... and process builds the skeleton from the same class.
BuildSkeleton ==
    /\ s_cls # <<>>
    /\ "skeleton" \notin s_done
    /\ s_done' = s_done \cup {"skeleton"}
    /\ s_skeleton' = empty_dict_from_dataclass(s_cls)
    /\ UNCHANGED <<s_cls, s_schema>>
    /\ UNCHANGED <<chunk_vars, ingest_vars, merge_vars, extract_vars, pipe_vars>>

NextSkel == CompileSchema \/ BuildSkeleton

InitSpecSkel == IdlePipe /\ IdleChunk /\ IdleIngest /\ IdleMerge /\ IdleExtract /\ InitSkel

SpecSkel == InitSpecSkel /\ [][NextSkel]_vars

InitSpecPipe == IdleSkel /\ IdleChunk /\ IdleIngest /\ IdleMerge /\ InitPipe

SpecPipe == InitSpecPipe /\ [][NextPipe]_vars

InitSpecExtract == IdleSkel /\ IdlePipe /\ IdleChunk /\ IdleIngest /\ IdleMerge /\ InitExtract

SpecExtract == InitSpecExtract /\ [][NextExtract]_vars

InitSpecBatch == IdleSkel /\ IdlePipe /\ IdleChunk /\ IdleIngest /\ IdleMerge /\ InitExtract

SpecBatch == InitSpecBatch /\ [][NextBatch]_vars

InitSpecMerge == IdleSkel /\ IdlePipe /\ IdleChunk /\ IdleIngest /\ IdleExtract /\ InitMerge

SpecMerge == InitSpecMerge /\ [][NextMerge]_vars

InitSpecIngest == IdleSkel /\ IdlePipe /\ IdleChunk /\ IdleMerge /\ IdleExtract /\ InitIngest

SpecIngest == InitSpecIngest /\ [][NextIngest]_vars

InitSpecChunk == IdleSkel /\ IdlePipe /\ IdleIngest /\ IdleMerge /\ IdleExtract /\ InitChunk

SpecChunk == InitSpecChunk /\ [][NextChunk]_vars

\* ---- observers of the ingestor
EmittedRecords == Flatten([i \in 1..Len(emitted) |-> emitted[i].records])

MissingInfo(doc) == \E k \in {"id", "file", "download_link"} : doc[k] \in {Absent, None}

IsErrorRecord(rec) == rec.type = "error" /\ rec.full_text = ""

\* C1: after DocumentsParser has processed a list of descriptors (missing fields,
\* failed downloads, unsupported types and archives included) it has emitted at
\* least as many records as there are descriptors, and every descriptor has
\* contributed at least one record.
C1_AtLeastOneRecordPerDescriptor ==
    /\ Len(emitted) = doc_index
    /\ documents_data = EmittedRecords
    /\ \A i \in 1..doc_index : Len(emitted[i].records) >= 1
    /\ Len(documents_data) >= doc_index

C1_Witness ==
    /\ doc_index = Len(document_infos)
    /\ doc_index = MaxDocs
    /\ \E i \in 1..doc_index : emitted[i].failed
    /\ \E i \in 1..doc_index : Len(emitted[i].records) >= 3

\* C2: when processing a descriptor fails (its id, name or link is missing, the
\* fetch returns a failure, or its branch raises) exactly one record of kind
\* error with an empty full_text is appended for it, no exception leaves
\* _process_document, and the later descriptors are still processed in order.
C2_FailureYieldsOneErrorRecord ==
    /\ ~escaped
    /\ Len(emitted) = doc_index
    /\ documents_data = EmittedRecords
    /\ \A i \in 1..doc_index :
        (MissingInfo(document_infos[i]) \/ emitted[i].fetch_failed \/ emitted[i].failed) =>
            /\ Len(emitted[i].records) = 1
            /\ IsErrorRecord(emitted[i].records[1])


\* ---- observers of a chunker call
c_budget ==
    MaxAvailableTokens(c_in.CONTEXT_WINDOW, c_in.system_tokens, c_in.RESPONSE_TOKENS,
                       c_in.draft_user_prompt_tokens)

c_returned == c_out # Pending /\ ~c_out.raised

\* The token count of a chunk is at least the sum over its paragraphs (the
\* "\n\n" between them can only add tokens).
ChunkTokens(chunk) == SumSeq([j \in 1..Len(chunk) |-> count_tokens(chunk[j])])

\* The visible paragraphs of a paragraph list, in order.
Visible(text) == SelectSeq(text, LAMBDA p : ~IsWhitespace(p))

\* ---------------------------------------------------------------- claims
\* C3: no chunk returned by chunk_text_for_user_prompt has more tokens than the
\* budget context_window - tokens(system_prompt) - tokens(template) -
\* response_tokens, also when one paragraph alone is larger than the budget.
C3_NoChunkAboveBudget ==
    c_returned =>
        \A j \in 1..Len(c_out.chunks) : ChunkTokens(c_out.chunks[j]) <= c_budget

\* C5: the chunks are an order-preserving partition of the paragraphs of the
\* text: the paragraphs of all chunks, in chunk order, are the paragraphs of the
\* text, none lost, duplicated or reordered (the whitespace used to rejoin them,
\* and with it the empty and blank paragraphs, is ignored).
C5_ChunksPartitionParagraphs ==
    c_returned => Visible(Flatten(c_out.chunks)) = Visible(c_in.full_text)

C5_Witness ==
    /\ c_returned
    /\ Len(c_out.chunks) >= 2
    /\ Len(Visible(c_in.full_text)) = MaxParas
    /\ \E j \in 1..Len(c_out.chunks) : Len(c_out.chunks[j]) >= 2

\* C6: with a positive budget the call returns a non-empty sequence of chunks
\* (also for the empty text), and exactly one chunk when the paragraphs' total
\* token count is within the budget.
C6_NonEmptyAndSingleWhenFits ==
    (c_out # Pending /\ c_budget > 0) =>
        /\ ~c_out.raised
        /\ Len(c_out.chunks) >= 1
        /\ (ChunkTokens(c_in.full_text) <= c_budget => Len(c_out.chunks) = 1)

C6_Witness ==
    /\ c_returned
    /\ Len(Visible(c_in.full_text)) >= 2
    /\ ChunkTokens(c_in.full_text) = c_budget
    /\ Len(c_out.chunks) = 1

\* ---- observers of the merge engine
\* None, the empty string, the empty list and the empty mapping.
IsEmptyValue(value) ==
    \/ value.t = "NoneType"
    \/ value.t = "str" /\ value.v = ""
    \/ value.t = "list" /\ value.v = {}
    \/ value.t = "dict" /\ DOMAIN value.v = {}

IsScalarItem(value) == value.t \in {"str", "float"} /\ ~IsEmptyValue(value)

\* f1 merged, then f2.
MergeBoth(f1, f2, acc) ==
    LET r == accumulate_data(f1, acc)
    IN  IF r.raised THEN r ELSE accumulate_data(f2, r.accumulated)

\* a and b hold the same value under every key whose value is a list, a boolean
\* or a mapping.
SameCollections(a, b) ==
    \A k \in DOMAIN a \cup DOMAIN b :
        (DictGet(a, k, PyNone).t \in {"list", "bool", "dict"}
            \/ DictGet(b, k, PyNone).t \in {"list", "bool", "dict"})
        => DictGet(a, k, PyNone) = DictGet(b, k, PyNone)

\* C7: from any aggregate, merging two fragments in either order, when both
\* orders complete, gives the same list, boolean and mapping fields, inner keys
\* of mappings included.
C7_FragmentOrderIrrelevant ==
    ~merge_raised =>
        \A f1 \in Fragments, f2 \in Fragments :
            LET r12 == MergeBoth(f1, f2, aggregate)
                r21 == MergeBoth(f2, f1, aggregate)
            IN  (~r12.raised /\ ~r21.raised) => SameCollections(r12.accumulated, r21.accumulated)

\* C8: merging the empty skeleton as a fragment leaves every field of the
\* aggregate, nested fields included, as it was.
C8_SkeletonIsNeutral ==
    ~merge_raised => accumulate_data(SkeletonFragment, aggregate) = Merged(aggregate)

\* A confidence score that was never given counts as 0.
ConfidenceOf(value) == IF value.t = "float" THEN value.v ELSE 0

\* The replacement rule as stated: nothing held yet, or a longer rendering, or a
\* higher confidence.
MoreInformative(value, existing, new_conf, existing_conf) ==
    \/ IsEmptyValue(existing)
    \/ Len(PyStr(value)) > Len(PyStr(existing))
    \/ ConfidenceOf(new_conf) > ConfidenceOf(existing_conf)

\* C9: a merge that completes replaces the value held under a key by the
\* fragment's non-empty scalar exactly when nothing is held yet, or the new value
\* renders longer than the held one, or the fragment's confidence exceeds the
\* aggregate's; otherwise the held value stays.
C9_ScalarReplacedIffMoreInformative ==
    ~merge_raised =>
        \A new_data \in Fragments :
            LET r == accumulate_data(new_data, aggregate)
            IN  \A i \in 1..Len(new_data) :
                    LET key == new_data[i].key
                        value == new_data[i].value
                        existing == DictGet(aggregate, key, PyNone)
                    IN  (~r.raised /\ IsScalarItem(value)) =>
                            DictGet(r.accumulated, key, PyNone) =
                                IF MoreInformative(value, existing,
                                       ItemsGet(new_data, ConfidenceKey, PyNone),
                                       DictGet(aggregate, ConfidenceKey, PyNone))
                                THEN value ELSE existing

\* Every non-empty value of a is non-empty in b, one level into mappings as well.
NonEmptyKept(a, b) ==
    \A k \in DOMAIN a :
        ~IsEmptyValue(a[k]) =>
            /\ ~IsEmptyValue(DictGet(b, k, PyNone))
            /\ (a[k].t = "dict" /\ b[k].t = "dict") =>
                   \A j \in DOMAIN a[k].v :
                       ~IsEmptyValue(a[k].v[j]) => ~IsEmptyValue(DictGet(b[k].v, j, PyNone))

\* C10: an empty value of a fragment leaves the aggregate's value for its key
\* as it was, and no merge turns a non-empty value of the aggregate, at the top
\* level or inside a mapping, into an empty one.
C10_EmptyNeverOverwrites ==
    ~merge_raised =>
        \A new_data \in Fragments :
            LET r == accumulate_data(new_data, aggregate)
            IN  /\ \A i \in 1..Len(new_data) :
                       IsEmptyValue(new_data[i].value) =>
                           DictGet(r.accumulated, new_data[i].key, PyNone)
                               = DictGet(aggregate, new_data[i].key, PyNone)
                /\ NonEmptyKept(aggregate, r.accumulated)

\* ---- observers of the extraction
\* What the window leaves for the text of the document the loop is at.
x_budget ==
    x_config.CONTEXT_WINDOW - x_config.system_tokens
        - (x_config.metadata_tokens + JsonTokens(Dict(x_already))) - x_config.RESPONSE_TOKENS

CallsFor(d) == {i \in 1..Len(calls) : calls[i].doc = d}

\* C4: when the window leaves no room for the text of a document, the chunker
\* raises before splitting and returns no chunk, no generation call is made for
\* that document, and the error reaches _extract_semantic_data, which records
\* it and stores no semantic data.
C4_NoRoomFailsBeforeSplitting ==
    (Len(x_chunked) >= 1 /\ x_budget <= 0) =>
        /\ x_chunked[Len(x_chunked)].raised
        /\ ~x_chunked[Len(x_chunked)].split
        /\ x_chunked[Len(x_chunked)].chunks = <<>>
        /\ CallsFor(Len(x_chunked)) = {}
        /\ x_pc = "failed"
        /\ tender.processing_errors = <<"Semantic extraction failed">>
        /\ tender.semantic_data = PyNone
        /\ tender.processing_stage = "DOCUMENTS_PARSED"

\* The second document finds no room left after the merges of the first.
C4_Witness ==
    /\ Len(x_chunked) = 2
    /\ x_budget <= 0
    /\ CallsFor(1) # {}
    /\ x_chunked[2].raised
    /\ x_pc = "failed"

\* ---- more observers of the merge engine
IsTrueBool(d, k) == k \in DOMAIN d /\ d[k].t = "bool" /\ d[k].v

C12_MergeNeverRaises == ~merge_raised

\* ---- observers of the pipeline
Returned == p_pc = "returned"

\* C13: in a run of process_from_source, whatever the skip flags and whichever
\* steps fail, no step takes processing_stage to an earlier stage of the order
\* RAW_SCRAPED < UNIFIED_MAPPED < DOCUMENTS_PARSED < SEMANTIC_PROCESSED <
\* VECTOR_INDEXED < COMPLETED.
C13_StageNeverMovesBack ==
    [][StageRank(tender'.processing_stage) >= StageRank(tender.processing_stage)]_vars

\* A run that parsed, then failed to extract, and went on to return the record.
C13_Witness ==
    /\ Returned
    /\ p_steps.parse = "parsed"
    /\ x_pc = "failed"
    /\ tender.processing_stage = "COMPLETED"

\* The stage the record has when step 3 begins.
StageBeforeExtraction == IF p_steps.parse = "parsed" THEN "DOCUMENTS_PARSED" ELSE "RAW_SCRAPED"

HasError(msg) == \E i \in DOMAIN tender.processing_errors : tender.processing_errors[i] = msg

\* C14: when semantic extraction fails, the record process_from_source returns
\* has no semantic result, carries the error message of the extraction, and
\* has the stage it had before the extraction step.
C14_FailedExtractionKeepsStage ==
    (Returned /\ x_pc = "failed") =>
        /\ tender.semantic_data = PyNone
        /\ HasError("Semantic extraction failed")
        /\ tender.processing_stage = StageBeforeExtraction

\* ---- more observers of the extraction
FailedCalls == {i \in DOMAIN calls : ~calls[i].ok}

\* C15: a generation call that fails (the call itself or the decoding of its
\* reply) is the last call of the extraction: no later chunk or document is
\* processed, the extraction has failed, nothing of the aggregate is stored on
\* the tender, exactly one error message was appended, and the stage is the
\* one the tender had.
C15_FailedCallAbortsExtraction ==
    \A i \in FailedCalls :
        /\ i = Len(calls)
        /\ Len(x_chunked) = calls[i].doc
        /\ x_pc = "failed"
        /\ tender.semantic_data = PyNone
        /\ tender.processing_errors = <<"Semantic extraction failed">>
        /\ tender.processing_stage = "DOCUMENTS_PARSED"

\* The call fails on the second document, after the first has been merged.
C15_Witness ==
    /\ FailedCalls # {}
    /\ calls[Len(calls)].doc = 2
    /\ Len(x_documents) = 2
    /\ x_accumulated # empty_dict_from_dataclass(SemanticTenderDetail)
    /\ total_calls = 1

\* process_from_source has ended, by returning or by raising.
Ended == p_pc \in {"returned", "raised"}

\* C16: when vector indexing fails, the error is recorded on the record, the
\* stage is not VECTOR_INDEXED, and process_from_source returns that record:
\* nothing is raised and the record is not lost.
C16_IndexingFailureStillReturns ==
    (Ended /\ p_steps.index = "failed") =>
        /\ HasError("Vector indexing failed")
        /\ tender.processing_stage # "VECTOR_INDEXED"
        /\ Returned
        /\ unified_tender = "tender"

\* C17: an extraction over zero parsed documents makes no generation call and
\* succeeds: the typed record holds the skeleton defaults in every field, and
\* the tender is SEMANTIC_PROCESSED with the semantic result present.
C17_ZeroDocumentsSucceeds ==
    (x_documents = <<>> /\ x_pc \in {"done", "failed"}) =>
        /\ calls = <<>>
        /\ x_pc = "done"
        /\ tender.semantic_data = Dict(empty_dict_from_dataclass(SemanticTenderDetail))
        /\ tender.processing_stage = "SEMANTIC_PROCESSED"

\* ---- more observers of the ingestor
\* The entries of the archive that are files in plain sight, by whether the
\* classifier knows their type.
Members == {archive[k] : k \in 1..Len(archive)}

SupportedMembers ==
    {f \in Members : ~endswith(f, "/") /\ ~startswith(f, ".")
                       /\ get_file_type(splitext(f)[2]) # "UNSUPPORTED"}

UnsupportedMembers ==
    {f \in Members : ~endswith(f, "/") /\ ~startswith(f, ".")
                       /\ get_file_type(splitext(f)[2]) = "UNSUPPORTED"}

\* The only descriptor is an archive that was fetched and opened, and has been
\* processed.
SingleArchiveIngested ==
    /\ Len(document_infos) = 1
    /\ doc_index = 1
    /\ emitted[1].unzip = "opened"

OneSupportedOneUnsupported ==
    /\ SingleArchiveIngested
    /\ Len(archive) = 2
    /\ Cardinality(SupportedMembers) = 1
    /\ Cardinality(UnsupportedMembers) = 1

IsWrapper(rec, doc) == rec.id = doc.id /\ rec.type = "zip" /\ rec.name = doc.file

\* C18: ingesting a single ZIP descriptor whose archive holds one supported and
\* one unsupported file yields exactly 2 records: the wrapper record of the
\* archive and the record of the supported member, with ordinal 1; the
\* unsupported member is passed over.
C18_UnsupportedMemberSkipped ==
    OneSupportedOneUnsupported =>
        /\ Len(documents_data) = 2
        /\ IsWrapper(documents_data[1], document_infos[1])
        /\ documents_data[2].name \in SupportedMembers
        /\ documents_data[2].id =
               document_infos[1].id \o "_zip_1_" \o splitext(documents_data[2].name)[1]

\* The unsupported member comes first in the archive.
C18_Witness ==
    /\ OneSupportedOneUnsupported
    /\ archive = <<"n.xyz", "m.pdf">>
    /\ Len(documents_data) = 2

\* C18 as stated: the same ingestion yields exactly 3 records, the wrapper and
\* 2 member records.
C18_ThreeRecords ==
    OneSupportedOneUnsupported =>
        /\ Len(documents_data) = 3
        /\ IsWrapper(documents_data[1], document_infos[1])

\* C19: for an archive descriptor with id D that holds at least one supported
\* member, more than one record is emitted, and every record emitted for it,
\* the wrapper included, has an id that starts with D and an underscore, a
\* name that is not empty and a path that is not empty.
C19_ArchiveRecordsCarryParentPrefix ==
    \A i \in 1..doc_index :
        (emitted[i].unzip = "opened" /\ SupportedMembers # {}) =>
            /\ Len(emitted[i].records) > 1
            /\ \A k \in 1..Len(emitted[i].records) :
                  LET rec == emitted[i].records[k]
                  IN  /\ startswith(rec.id, document_infos[i].id \o "_")
                      /\ IsTrue(rec.name)
                      /\ IsTrue(rec.path)

\* The records the expansion of the i-th descriptor's archive gave: those after
\* the wrapper.
Expansion(i) == Tail(emitted[i].records)

\* C20: when the archive of a descriptor cannot be opened, its expansion gives
\* exactly one record, the error record of the archive as a whole (id D_zip_error,
\* at the path of the archive, no text but the failure), and no record of a
\* member; the wrapper is still emitted, the except branch of _process_document
\* is not entered and nothing is raised.
C20_UnopenableArchiveYieldsOneError ==
    \A i \in 1..doc_index :
        emitted[i].unzip = "failed" =>
            /\ IsWrapper(emitted[i].records[1], document_infos[i])
            /\ Len(Expansion(i)) = 1
            /\ Expansion(i)[1].id = document_infos[i].id \o "_zip_error"
            /\ Expansion(i)[1].type = "zip"
            /\ Expansion(i)[1].path = emitted[i].records[1].path
            /\ Expansion(i)[1].full_text = "Failed to unpack ZIP file"
            /\ Expansion(i)[1].name \notin Members
            /\ ~emitted[i].failed
            /\ ~escaped

\* The archive that does not open lists a supported member, and the descriptor
\* after it has been processed too.
C20_Witness ==
    /\ doc_index = 2
    /\ emitted[1].unzip = "failed"
    /\ SupportedMembers # {}
    /\ Len(emitted[2].records) >= 1

\* The entries of the archive that get parsed, in the order of the archive.
ParsedEntries == SelectSeq(archive, LAMBDA f : f \in SupportedMembers)

Ids(records) == [k \in 1..Len(records) |-> records[k].id]

\* C21: the members of an opened archive of descriptor D have the ids
\* D_zip_<ordinal>_<slug>, the ordinals 1, 2, ... going in archive order to the
\* entries that are parsed and to no directory, hidden or unsupported entry; no
\* two members share an id, and a second expansion of the archive for the same
\* D gives the same ids in the same order.
C21_MemberIdsByOrdinal ==
    \A i \in 1..doc_index :
        emitted[i].unzip = "opened" =>
            /\ Len(Expansion(i)) = Len(ParsedEntries)
            /\ \A k \in 1..Len(Expansion(i)) :
                  /\ Expansion(i)[k].name = ParsedEntries[k]
                  /\ Expansion(i)[k].id =
                         document_infos[i].id \o "_zip_" \o ToString(k) \o "_"
                             \o splitext(ParsedEntries[k])[1]
            /\ \A k, l \in 1..Len(Expansion(i)) :
                  k # l => Expansion(i)[k].id # Expansion(i)[l].id
            /\ \A j \in 1..doc_index :
                  (emitted[j].unzip = "opened" /\ document_infos[j].id = document_infos[i].id)
                      => Ids(Expansion(j)) = Ids(Expansion(i))

\* The archive is expanded twice, its unsupported entry ahead of the parsed
\* one, and the member parses the first time and not the second.
C21_Witness ==
    /\ doc_index = 2
    /\ emitted[1].unzip = "opened"
    /\ emitted[2].unzip = "opened"
    /\ archive = <<"n.xyz", "m.pdf">>
    /\ Ids(Expansion(2)) = <<"d1_zip_1_m">>
    /\ Expansion(1)[1].full_text # Expansion(2)[1].full_text

\* DocumentsParser has gone through all its descriptors.
IngestFinished == doc_index = Len(document_infos) /\ ~escaped

\* C22: when the ingestor has finished, no temporary file or directory of the
\* run is left: the downloaded copies, the files extracted from archives and
\* the extraction directories have been deleted.
C22_TemporaryFilesReleased == IngestFinished => tmp_files = {}

\* C23: when DocumentsParser has finished, the path of every emitted record
\* that has one (the record of a fetched plain file, of an archive wrapper, of
\* an archive member) is the path of a local file that exists.
C23_RecordPathsExist ==
    IngestFinished =>
        \A k \in 1..Len(documents_data) :
            documents_data[k].path # None => documents_data[k].path \in tmp_files

\* A plain file and an archive with a member have been ingested.
C23_Witness ==
    /\ IngestFinished
    /\ doc_index = 2
    /\ emitted[1].unzip = "opened"
    /\ Len(emitted[1].records) = 2
    /\ emitted[2].unzip = "none"
    /\ emitted[2].records[1].path # None

\* ---- observers of the skeleton and the contract
\* d has the shape the skeleton of cls is to have.
RECURSIVE IsSkeletonOf(_, _)
IsSkeletonOf(d, cls) ==
    /\ DOMAIN d = FieldNames(cls)
    /\ \A i \in 1..Len(cls) :
          LET v == d[cls[i].name]
          IN  CASE cls[i].type = "dataclass" -> v.t = "dict" /\ IsSkeletonOf(v.v, cls[i].cls)
                [] cls[i].type = "list" -> v = List({})
                [] cls[i].type = "dict" -> v = Dict(EmptyDict)
                [] cls[i].type = "bool" -> v = Bool(FALSE)
                [] OTHER -> v = PyNone

\* Every property name, at every level of nesting, is a key of d at that level.
RECURSIVE Covers(_, _)
Covers(properties, d) ==
    /\ DOMAIN properties \subseteq DOMAIN d
    /\ \A name \in DOMAIN properties :
          "properties" \in DOMAIN properties[name] =>
              /\ d[name].t = "dict"
              /\ Covers(properties[name].properties, d[name].v)

\* C24: the skeleton of a dataclass has exactly its field names as keys, with
\* the recursive skeleton for a nested dataclass, the empty list for a list,
\* the empty mapping for a mapping, false for a boolean and None for every
\* other field; every property name of the compiled contract is a key of the
\* skeleton at the same level of nesting.
C24_SkeletonMatchesShape ==
    s_done = {"schema", "skeleton"} =>
        /\ IsSkeletonOf(s_skeleton, s_cls)
        /\ Covers(s_schema.properties, s_skeleton)

\* A class with an Optional nested dataclass that nests another, next to an
\* Optional list.
C24_Witness ==
    /\ s_done = {"schema", "skeleton"}
    /\ Len(s_cls) = 2
    /\ s_cls[1].type = "dataclass" /\ s_cls[1].optional
    /\ s_cls[1].cls[1].type = "dataclass"
    /\ s_cls[2].type = "list" /\ s_cls[2].optional
    /\ s_skeleton["a"].v["inner"].v["z"] = Bool(FALSE)

\* C25: the prompt of every chunk embeds the aggregate as it is once the
\* fragments of all earlier chunks, of this and of earlier documents, are
\* merged: when a chunk is about to be sent, the snapshot its prompt carries
\* is the aggregate.
C25_PromptEmbedsCurrentAggregate == x_pc = "chunk" => x_already = x_accumulated

\* The chunks of the documents chunked so far, as <<document, chunk>> indexes
\* in list order.
CallOrder ==
    Flatten([d \in 1..Len(x_chunked) |->
                [j \in 1..Len(x_chunked[d].chunks) |-> <<d, j>>]])

\* C26: the generation calls go out one after the other, by document in list
\* order and by chunk within a document, one call for each chunk; a call goes
\* out only when every call before it has returned and been merged; and the
\* typed record is built only when the last chunk of the last document has
\* been merged.
C26_CallsInOrderOnePerChunk ==
    /\ Len(calls) <= Len(CallOrder)
    /\ \A i \in 1..Len(calls) : <<calls[i].doc, calls[i].chunk>> = CallOrder[i]
    /\ x_pc = "chunk" =>
          /\ FailedCalls = {}
          /\ <<x_doc, x_chunk>> = CallOrder[Len(calls) + 1]
    /\ x_pc = "done" =>
          /\ Len(x_chunked) = Len(x_documents)
          /\ Len(calls) = Len(CallOrder)
          /\ FailedCalls = {}
          /\ total_calls = Len(x_documents)

\* Two documents, the second in two chunks, and the record built.
C26_Witness ==
    /\ x_pc = "done"
    /\ Len(x_documents) = 2
    /\ Len(calls) = 3
    /\ calls[3].doc = 2 /\ calls[3].chunk = 2 /\ calls[3].ok

\* C27: the merged value of every field is the same in whatever order the keys
\* of the fragment are visited: with extraction_confidence_score ahead of the
\* other keys or after them, a merge that completes gives the same aggregate.
C27_KeyOrderIrrelevant ==
    ~merge_raised =>
        \A f \in FragmentBodies, c \in ConfidenceValues :
            LET first == accumulate_data(<<Item(ConfidenceKey, c)>> \o ItemsFrom(f, 1), aggregate)
                last == accumulate_data(ItemsFrom(f, 1) \o <<Item(ConfidenceKey, c)>>, aggregate)
            IN  (~first.raised /\ ~last.raised) => first.accumulated = last.accumulated

\* C28: merging leaves its inputs as they were: while and after
\* _extract_from_documents runs, the initial aggregate handed to it, the
\* mappings nested in it included, is still the skeleton it was.
C28_InitialAggregateUnchanged ==
    x_pc \in {"document", "chunk", "done", "failed"} =>
        initial_accumulated = empty_dict_from_dataclass(SemanticTenderDetail)

\* C29: extraction goes ahead for a tender with documents that did not parse,
\* and it uses the parsed documents only: no generation call is made for a
\* record that marks an error, an unsupported type or an archive, and when no
\* document was parsed no call is made at all.
C29_CallsOnlyForParsedDocuments ==
    /\ \A i \in DOMAIN calls : p_steps.kinds[calls[i].doc] = "parsed"
    /\ (p_pc \in {"index", "complete", "returned", "raised"} /\ ~p_args.skip_llm) =>
          x_pc \in {"done", "failed"}

\* ---- observers of a batch
\* The replies of this tender's calls merged one by one, from the aggregate acc.
RECURSIVE MergedReplies(_, _)
MergedReplies(i, acc) ==
    IF i > Len(calls) \/ ~calls[i].ok THEN acc
    ELSE MergedReplies(i + 1, accumulate_data(calls[i].reply, acc).accumulated)

\* The extractor has served a tender before this one, whose last snapshot is
\* still there: this tender's first document is yet to be chunked.
ServedBefore == x_already # EmptyDict /\ x_chunked = <<>>

\* C30: tenders that go through the same extractor one after the other do not
\* touch each other: for each tender the aggregate is at every moment what its
\* own replies, merged into a fresh skeleton, give, whatever was processed
\* before it, and so is the semantic result stored on it.
C30_TendersAreIndependent ==
    /\ x_pc \in {"document", "chunk", "done", "failed"} =>
          x_accumulated = MergedReplies(1, empty_dict_from_dataclass(SemanticTenderDetail))
    /\ x_pc = "done" =>
          tender.semantic_data =
              Dict(from_dict(SemanticTenderDetail,
                             MergedReplies(1, empty_dict_from_dataclass(SemanticTenderDetail))).value)

\* The extraction of a tender with two documents has begun, after a tender for
\* which a score was extracted.
C30_Witness ==
    /\ ServedBefore
    /\ x_pc = "document"
    /\ Len(x_documents) = 2
    /\ x_already["technical_complexity_score"] = Float(7)
    /\ x_accumulated = empty_dict_from_dataclass(SemanticTenderDetail)
====
